---- MODULE Spec2Model ----
(***************************************************************************)
(* Model of backend.py: the duplicate scan (compute_hashes_on_phone_impl,  *)
(* group_by_hash, find_duplicates) and the transfer engine                 *)
(* (transfer_or_move_files), with the shared cancellation flag stop_event. *)
(***************************************************************************)
EXTENDS Integers, Sequences, FiniteSets, TLC

(* ------------------------------ bounds -------------------------------- *)

\* Longest file list an operation is started with.
MaxFiles == 2

\* Number of duplicate scans one behaviour runs (the second is a rescan).
MaxScans == 2

(* ----------------------------- universe ------------------------------- *)

\* Python's None.  Values that may be None are sequences (a local path, a
\* digest) or are wrapped in a one-element sequence (Some).
None == << >>
Some(x) == <<x>>

\* Remote files of the device: /sdcard/<dir>/<base>.
Paths ==
    { [dir |-> "DCIM", stem |-> "a", ext |-> ".jpg"],
      [dir |-> "DCIM", stem |-> "b", ext |-> ""],
      [dir |-> "Download", stem |-> "a", ext |-> ".jpg"] }

\* File contents.
Contents == {"c1", "c2"}

\* Rank of a path in Python's string order on "/sdcard/<dir>/<base>".
PathRank(p) ==
    (IF p.dir = "DCIM" THEN 0 ELSE 2) + (IF p.stem = "a" THEN 0 ELSE 1)

\* sorted(set(result)): the paths of S in ascending order, without repeats.
RECURSIVE SortedList(_)
SortedList(S) ==
    IF S = {} THEN << >>
    ELSE LET m == CHOOSE x \in S : \A y \in S : PathRank(x) <= PathRank(y)
         IN  <<m>> \o SortedList(S \ {m})

\* The file lists build_file_list_for_paths can return for a non-empty request.
FileLists ==
    { SortedList(S) : S \in { T \in SUBSET Paths : T # {} /\ Cardinality(T) <= MaxFiles } }

\* os.path.basename and os.path.splitext(...)[1]
basename(p) == <<p.stem, p.ext>>
splitext1(p) == p.ext

(* ------------------------- local file system -------------------------- *)

\* A local path is <<directory, file name>>; the file system maps the paths
\* that exist to their content.
HASH_FALLBACK_DIR == <<"tmp", "adf_hash_temp">>

exists(fs, lp) == lp \in DOMAIN fs

remove(fs, lp) == [x \in (DOMAIN fs) \ {lp} |-> fs[x]]

write(fs, lp, c) == [x \in (DOMAIN fs) \cup {lp} |-> IF x = lp THEN c ELSE fs[x]]

\* local_path and temp_path of adb_pull: the final name is the basename, the
\* temporary name carries a prefix derived from the whole remote path.
local_path_of(remote_path, local_dir) == <<local_dir, basename(remote_path)>>

temp_path_of(remote_path, local_dir) ==
    <<local_dir, <<remote_path.dir>> \o basename(remote_path) \o <<".tmp">> >>

\* What the adb pull command does: it succeeds and writes the temporary file,
\* fails and writes nothing, or fails and leaves a partly written temporary file.
PullOutcomes == {"ok", "fail", "partial"}

\* Faulty variant: the existing file of the final name is removed before the
\* outcome of the pull is known.
adb_pull_remove_first(fs, remote_path, local_dir, out, c) ==
    LET local_path == local_path_of(remote_path, local_dir)
        temp_path  == temp_path_of(remote_path, local_dir)
        success == out = "ok"
        fs0 == IF exists(fs, local_path) THEN remove(fs, local_path) ELSE fs
        fs1 == IF out \in {"ok", "partial"} THEN write(fs0, temp_path, c) ELSE fs0
    IN  IF success /\ exists(fs1, temp_path)
        THEN [fs |-> write(remove(fs1, temp_path), local_path, fs1[temp_path]),
              ret |-> local_path]
        ELSE [fs  |-> IF exists(fs1, temp_path) THEN remove(fs1, temp_path) ELSE fs1,
              ret |-> None]

\* adb_pull: `out` is the outcome of the adb pull command, c the content of the
\* remote file.  Returns the file system afterwards and the returned path.
adb_pull(fs, remote_path, local_dir, out, c) ==
    LET local_path == local_path_of(remote_path, local_dir)
        temp_path  == temp_path_of(remote_path, local_dir)
        success == out = "ok"
        fs1 == IF out \in {"ok", "partial"} THEN write(fs, temp_path, c) ELSE fs
    IN  IF success /\ exists(fs1, temp_path)
        THEN LET fs2 == IF exists(fs1, local_path) THEN remove(fs1, local_path) ELSE fs1
                 fs3 == write(remove(fs2, temp_path), local_path, fs2[temp_path])
             IN  [fs |-> fs3, ret |-> local_path]
        ELSE [fs  |-> IF exists(fs1, temp_path) THEN remove(fs1, temp_path) ELSE fs1,
              ret |-> None]

(* ------------------------------ hashing ------------------------------- *)

\* A digest is modelled as <<algorithm, content>>: equal for equal content under
\* one algorithm, different across algorithms (32 against 40 hex digits).
\* EmptyString is the hash "" (falsy, like None).
EmptyString == <<"">>
md5(c) == <<"md5", c>>
sha1(c) == <<"sha1", c>>

MAX_HASH_PULL_SIZE == 500 * 1024 * 1024

\* What the device answers to md5sum and sha1sum for one path.
Routes == {"md5", "sha1", "none"}

\* What ls -l gives as the size of a path that fails remote hashing.
Sizes == {None, Some(MAX_HASH_PULL_SIZE), Some(MAX_HASH_PULL_SIZE + 1)}

\* adb_md5: md5sum first, sha1sum when md5sum gives nothing, else None.
adb_md5(present, route, c) ==
    IF present /\ route = "md5" THEN md5(c)
    ELSE IF present /\ route = "sha1" THEN sha1(c)
    ELSE None

\* adb_get_file_size: None when the command fails or the field is not a number.
adb_get_file_size(present, size) == IF present THEN size ELSE None

\* local_file_hash: md5 of the staged copy, None on any exception.
local_file_hash(fs, lp, ok) ==
    IF ok /\ exists(fs, lp) THEN md5(fs[lp]) ELSE None

\* The test of line 395: size is not None and size > MAX_HASH_PULL_SIZE.
TooLargeAtOrOver(size) == size # None /\ size[1] >= MAX_HASH_PULL_SIZE

TooLarge(size) == size # None /\ size[1] > MAX_HASH_PULL_SIZE

(* --------------------- insertion-ordered dictionaries ------------------ *)

\* A Python dict is a sequence of <<key, value>> pairs with distinct keys, in
\* insertion order.
Keys(d) == { d[k][1] : k \in DOMAIN d }

Get(d, key) == (CHOOSE k \in DOMAIN d : d[k][1] = key)

Lookup(d, key) == d[Get(d, key)][2]

\* d[key] = value
Put(d, key, value) ==
    IF key \in Keys(d)
    THEN [d EXCEPT ![Get(d, key)] = <<key, value>>]
    ELSE Append(d, <<key, value>>)

\* rev[h].append(fp) on a defaultdict(list)
AppendTo(rev, h, fp) ==
    IF h \in Keys(rev)
    THEN [rev EXCEPT ![Get(rev, h)] = <<h, Append(rev[Get(rev, h)][2], fp)>>]
    ELSE Append(rev, <<h, <<fp>> >>)

RECURSIVE Invert(_, _)
Invert(hmap, rev) ==
    IF hmap = << >> THEN rev
    ELSE Invert(Tail(hmap), AppendTo(rev, Head(hmap)[2], Head(hmap)[1]))

\* [F(x) for x in s if T(x)]
SelectMap(s, T(_), F(_)) ==
    LET sel == SelectSeq(s, T) IN [k \in 1..Len(sel) |-> F(sel[k])]

Truthy(h) == h # None /\ h # EmptyString

IsDupBucket(b) == Len(b[2]) > 1
IsDupBucketOver2(b) == Len(b[2]) > 2
IsDupBucketFrom1(b) == Len(b[2]) >= 1
HasHash(b) == Truthy(b[1])
AsGroup(b) == [hash |-> b[1], files |-> b[2]]
FirstFile(b) == b[2][1]

\* Faulty variants of group_by_hash: the bucket test off by one, either way.
group_by_hash_over2(hmap) ==
    LET rev == Invert(hmap, << >>)
    IN  [duplicates |-> SelectMap(rev, IsDupBucketOver2, AsGroup),
         uniques    |-> SelectMap(rev, HasHash, FirstFile)]

group_by_hash_from1(hmap) ==
    LET rev == Invert(hmap, << >>)
    IN  [duplicates |-> SelectMap(rev, IsDupBucketFrom1, AsGroup),
         uniques    |-> SelectMap(rev, HasHash, FirstFile)]

\* Faulty variant: every bucket gives its first path to uniques, whatever its
\* hash.
IsAnyBucket(b) == Len(b[2]) >= 1

group_by_hash_all_buckets(hmap) ==
    LET rev == Invert(hmap, << >>)
    IN  [duplicates |-> SelectMap(rev, IsDupBucket, AsGroup),
         uniques    |-> SelectMap(rev, IsAnyBucket, FirstFile)]

\* rev = hash -> [paths]; duplicates: the buckets of more than one path;
\* uniques: the first path of every bucket with a truthy hash.
group_by_hash(hmap) ==
    LET rev == Invert(hmap, << >>)
    IN  [duplicates |-> SelectMap(rev, IsDupBucket, AsGroup),
         uniques    |-> SelectMap(rev, HasHash, FirstFile)]

(* ------------------------------- state -------------------------------- *)

VARIABLES
    stop_event,        \* threading.Event: the process-wide cancellation flag
    pc,                \* position of the background task
    file_list,         \* the operation's file list
    i,                 \* loop index of the running operation (1-based)
    mapping,           \* compute_hashes_on_phone_impl: path -> hash, as a dict
    hmap,              \* what compute_hashes_on_phone_impl returned (Some or None)
    local,             \* the staged copy of the file being hashed locally
    fs,                \* local file system
    content,           \* content of every remote file
    remote,            \* the remote files present on the device
    dev,               \* answers the device gave so far, per question and path
    progress,          \* last progress_update payload
    scan_complete,     \* scan_complete payloads emitted by the running scan
    scans,             \* scans started so far
    prev,              \* scan_complete payloads of the scan before this one
    pulled,            \* paths the running scan called adb_pull on
    cancelAt,          \* index at which the running loop saw stop_event set, or 0
    is_move_op,        \* transfer_or_move_files: move (TRUE) or copy (FALSE)
    dest_folder,       \* transfer_or_move_files: data.get('dest_folder'), or None
    success_count,
    failed_count,
    target_dir,        \* destination directory of the file in progress
    final_local_path,  \* destination path of the file in progress
    trace,             \* confirmations, pulls and remote deletes of the transfer
    operation_complete, \* operation_complete payloads emitted
    op_type,           \* the cloud operation started, or "none"
    user_info,         \* cloud tasks: users.get(user_id), or None
    container,         \* the user's blob container: object key -> object
    blobs,             \* cloud_download_task: the listed blob names
    success,           \* adb_ls: whether the ls command succeeded
    stdout,            \* adb_ls: the output of the command, a list of lines
    results            \* adb_ls: what the call gave its caller

\* The variables of the duplicate scan and those of the transfer engine.
scanVars == <<mapping, hmap, local, dev, scan_complete, scans, prev, pulled>>

xferVars ==
    <<is_move_op, dest_folder, success_count, failed_count, target_dir,
      final_local_path, trace, operation_complete>>

\* The variables of the cloud tasks and those of adb_ls.
cloudVars == <<op_type, user_info, container, blobs>>

lsVars == <<success, stdout, results>>

vars ==
    <<stop_event, pc, file_list, i, fs, content, remote, progress, cancelAt,
      scanVars, xferVars, cloudVars, lsVars>>

\* No cloud operation was started and adb_ls was not called.
CloudIdle ==
    /\ op_type = "none"
    /\ user_info = None
    /\ container = [x \in {} |-> None]
    /\ blobs = << >>

LsIdle ==
    /\ success = FALSE
    /\ stdout = << >>
    /\ results = None

\* An answer of the device is drawn when the question is first asked and is
\* the same whenever it is asked again of the unchanged device.
Answer(memo, p, a) == p \in DOMAIN memo => memo[p] = a

Remember(memo, p, a) == [x \in (DOMAIN memo) \cup {p} |-> IF x = p THEN a ELSE memo[x]]

NoAnswers == [x \in {} |-> None]

\* The state after module load and the __main__ block: the flag is clear and
\* the staging directory was emptied.
InitScan ==
    /\ stop_event = FALSE
    /\ pc = "idle"
    /\ file_list = << >>
    /\ i = 0
    /\ mapping = << >>
    /\ hmap = None
    /\ local = None
    /\ fs = NoAnswers
    /\ content \in [Paths -> Contents]
    /\ remote = Paths
    /\ dev = [route |-> NoAnswers, size |-> NoAnswers, pull |-> NoAnswers, lhash |-> NoAnswers]
    /\ progress = <<0, 0>>
    /\ scan_complete = << >>
    /\ scans = 0
    /\ prev = << >>
    /\ pulled = {}
    /\ cancelAt = 0
    /\ is_move_op = FALSE
    /\ dest_folder = None
    /\ success_count = 0
    /\ failed_count = 0
    /\ target_dir = None
    /\ final_local_path = None
    /\ trace = << >>
    /\ operation_complete = << >>
    /\ CloudIdle
    /\ LsIdle

(* --------------------------- socket handlers --------------------------- *)

\* cancel_operation: sets the flag, at any time.
handle_cancel ==
    /\ stop_event' = TRUE
    /\ UNCHANGED <<pc, file_list, i, fs, content, remote, progress, cancelAt,
                   scanVars, xferVars,
                   cloudVars, lsVars>>

\* start_operation with a payload that is rejected (no operation, no paths,
\* unknown operation): the flag is cleared before the payload is examined and
\* no task is started.
handle_start_operation_rejected ==
    /\ stop_event' = FALSE
    /\ UNCHANGED <<pc, file_list, i, fs, content, remote, progress, cancelAt,
                   scanVars, xferVars,
                   cloudVars, lsVars>>

\* start_operation {operation: find_duplicates}: clears the flag, builds the
\* file list and starts find_duplicates as a background task.  A rescan
\* submits the selection of the scan before it.
handle_start_find_duplicates ==
    /\ pc \in {"idle", "done"}
    /\ scans < MaxScans
    /\ stop_event' = FALSE
    /\ \E fl \in FileLists :
          /\ scans > 0 => fl = file_list
          /\ file_list' = fl
    /\ pc' = "fd_begin"
    /\ scans' = scans + 1
    /\ prev' = scan_complete
    /\ scan_complete' = << >>
    /\ UNCHANGED <<i, mapping, hmap, local, fs, content, remote, dev, progress,
                   pulled, cancelAt, xferVars,
                   cloudVars, lsVars>>

(* --------------------------- duplicate scan ---------------------------- *)

fp == file_list[i]

\* find_duplicates up to the loop of compute_hashes_on_phone_impl: mapping = {}.
compute_hashes_begin ==
    /\ pc = "fd_begin"
    /\ mapping' = << >>
    /\ hmap' = None
    /\ i' = 1
    /\ pulled' = {}
    /\ cancelAt' = 0
    /\ pc' = "h_loop"
    /\ UNCHANGED <<stop_event, file_list, local, fs, content, remote, dev,
                   progress, scan_complete, scans, prev, xferVars,
                   cloudVars, lsVars>>

\* Faulty variant: cancellation breaks out of the loop and the partial
\* mapping is returned.
compute_hashes_poll_break ==
    /\ pc = "h_loop"
    /\ IF i > Len(file_list)
       THEN /\ hmap' = Some(mapping)
            /\ pc' = "fd_ret"
            /\ UNCHANGED <<progress, cancelAt>>
       ELSE IF stop_event
       THEN /\ hmap' = Some(mapping)
            /\ cancelAt' = i
            /\ pc' = "fd_ret"
            /\ UNCHANGED progress
       ELSE /\ progress' = <<i, Len(file_list)>>
            /\ pc' = "h_md5"
            /\ UNCHANGED <<hmap, cancelAt>>
    /\ UNCHANGED <<stop_event, file_list, i, mapping, local, fs, content, remote,
                   dev, scan_complete, scans, prev, pulled, xferVars,
                   cloudVars, lsVars>>

\* Top of an iteration: the list is drained (return mapping), the flag is set
\* (return None), or progress is reported and the file is processed.
compute_hashes_poll ==
    /\ pc = "h_loop"
    /\ IF i > Len(file_list)
       THEN /\ hmap' = Some(mapping)
            /\ pc' = "fd_ret"
            /\ UNCHANGED <<progress, cancelAt>>
       ELSE IF stop_event
       THEN /\ hmap' = None
            /\ cancelAt' = i
            /\ pc' = "fd_ret"
            /\ UNCHANGED progress
       ELSE /\ progress' = <<i, Len(file_list)>>
            /\ pc' = "h_md5"
            /\ UNCHANGED <<hmap, cancelAt>>
    /\ UNCHANGED <<stop_event, file_list, i, mapping, local, fs, content, remote,
                   dev, scan_complete, scans, prev, pulled, xferVars,
                   cloudVars, lsVars>>

\* h = adb_md5(fp); if h: mapping[fp] = h; continue
compute_hashes_remote ==
    /\ pc = "h_md5"
    /\ \E r \in Routes :
          /\ Answer(dev.route, fp, r)
          /\ dev' = [dev EXCEPT !.route = Remember(dev.route, fp, r)]
          /\ LET h == adb_md5(fp \in remote, r, content[fp])
             IN  IF Truthy(h)
                 THEN /\ mapping' = Put(mapping, fp, h)
                      /\ i' = i + 1
                      /\ pc' = "h_loop"
                 ELSE /\ pc' = "h_size"
                      /\ UNCHANGED <<mapping, i>>
    /\ UNCHANGED <<stop_event, file_list, hmap, local, fs, content, remote,
                   progress, scan_complete, scans, prev, pulled, cancelAt,
                   xferVars,
                   cloudVars, lsVars>>

\* size = adb_get_file_size(fp); too large: log and continue
compute_hashes_size ==
    /\ pc = "h_size"
    /\ \E s \in Sizes :
          /\ Answer(dev.size, fp, s)
          /\ dev' = [dev EXCEPT !.size = Remember(dev.size, fp, s)]
          /\ IF TooLarge(adb_get_file_size(fp \in remote, s))
             THEN /\ i' = i + 1
                  /\ pc' = "h_loop"
             ELSE /\ pc' = "h_pull"
                  /\ UNCHANGED i
    /\ UNCHANGED <<stop_event, file_list, mapping, hmap, local, fs, content,
                   remote, progress, scan_complete, scans, prev, pulled, cancelAt,
                   xferVars,
                   cloudVars, lsVars>>

\* local = adb_pull(fp, HASH_FALLBACK_DIR); if not local: log and continue
compute_hashes_pull ==
    /\ pc = "h_pull"
    /\ \E out \in PullOutcomes :
          /\ Answer(dev.pull, fp, out)
          /\ dev' = [dev EXCEPT !.pull = Remember(dev.pull, fp, out)]
          /\ LET r == adb_pull(fs, fp, HASH_FALLBACK_DIR,
                               IF fp \in remote THEN out ELSE "fail", content[fp])
             IN  /\ fs' = r.fs
                 /\ IF r.ret = None
                    THEN /\ i' = i + 1
                         /\ pc' = "h_loop"
                         /\ UNCHANGED local
                    ELSE /\ local' = r.ret
                         /\ pc' = "h_lhash"
                         /\ UNCHANGED i
    /\ pulled' = pulled \cup {fp}
    /\ UNCHANGED <<stop_event, file_list, mapping, hmap, content, remote,
                   progress, scan_complete, scans, prev, cancelAt, xferVars,
                   cloudVars, lsVars>>

\* Faulty variant: the cleanup removes the file from the device (adb_rm)
\* together with the staged copy.
compute_hashes_local_rm ==
    /\ pc = "h_lhash"
    /\ \E ok \in BOOLEAN :
          /\ Answer(dev.lhash, fp, ok)
          /\ dev' = [dev EXCEPT !.lhash = Remember(dev.lhash, fp, ok)]
          /\ LET lh == local_file_hash(fs, local, ok)
             IN  mapping' = IF Truthy(lh) THEN Put(mapping, fp, lh) ELSE mapping
    /\ fs' = IF exists(fs, local) THEN remove(fs, local) ELSE fs
    /\ remote' = remote \ {fp}
    /\ local' = None
    /\ i' = i + 1
    /\ pc' = "h_loop"
    /\ UNCHANGED <<stop_event, file_list, hmap, content, progress,
                   scan_complete, scans, prev, pulled, cancelAt, xferVars,
                   cloudVars, lsVars>>

\* Faulty variant: the staged copy is removed only when its hash was recorded.
compute_hashes_local_keep_on_fail ==
    /\ pc = "h_lhash"
    /\ \E ok \in BOOLEAN :
          /\ Answer(dev.lhash, fp, ok)
          /\ dev' = [dev EXCEPT !.lhash = Remember(dev.lhash, fp, ok)]
          /\ LET lh == local_file_hash(fs, local, ok)
             IN  /\ mapping' = IF Truthy(lh) THEN Put(mapping, fp, lh) ELSE mapping
                 /\ fs' = IF Truthy(lh) /\ exists(fs, local) THEN remove(fs, local) ELSE fs
    /\ local' = None
    /\ i' = i + 1
    /\ pc' = "h_loop"
    /\ UNCHANGED <<stop_event, file_list, hmap, content, remote, progress,
                   scan_complete, scans, prev, pulled, cancelAt, xferVars,
                   cloudVars, lsVars>>

\* lh = local_file_hash(local); if lh: mapping[fp] = lh; os.remove(local)
compute_hashes_local ==
    /\ pc = "h_lhash"
    /\ \E ok \in BOOLEAN :
          /\ Answer(dev.lhash, fp, ok)
          /\ dev' = [dev EXCEPT !.lhash = Remember(dev.lhash, fp, ok)]
          /\ LET lh == local_file_hash(fs, local, ok)
             IN  mapping' = IF Truthy(lh) THEN Put(mapping, fp, lh) ELSE mapping
    /\ fs' = IF exists(fs, local) THEN remove(fs, local) ELSE fs
    /\ local' = None
    /\ i' = i + 1
    /\ pc' = "h_loop"
    /\ UNCHANGED <<stop_event, file_list, hmap, content, remote, progress,
                   scan_complete, scans, prev, pulled, cancelAt, xferVars,
                   cloudVars, lsVars>>

\* Faulty variant: the result is emitted whether or not the flag is set.
find_duplicates_finish_ignores_flag ==
    /\ pc = "fd_ret"
    /\ IF hmap # None
       THEN LET g == group_by_hash(hmap[1])
            IN  scan_complete' =
                    Append(scan_complete,
                           [all_files |-> file_list, uniques |-> g.uniques,
                            duplicates |-> g.duplicates])
       ELSE UNCHANGED scan_complete
    /\ progress' = <<0, 0>>
    /\ pc' = "done"
    /\ UNCHANGED <<stop_event, file_list, i, mapping, hmap, local, fs, content,
                   remote, dev, scans, prev, pulled, cancelAt, xferVars,
                   cloudVars, lsVars>>

\* find_duplicates after compute_hashes_on_phone_impl returned.
find_duplicates_finish ==
    /\ pc = "fd_ret"
    /\ IF hmap # None /\ ~stop_event
       THEN LET g == group_by_hash(hmap[1])
            IN  scan_complete' =
                    Append(scan_complete,
                           [all_files |-> file_list, uniques |-> g.uniques,
                            duplicates |-> g.duplicates])
       ELSE UNCHANGED scan_complete
    /\ progress' = <<0, 0>>
    /\ pc' = "done"
    /\ UNCHANGED <<stop_event, file_list, i, mapping, hmap, local, fs, content,
                   remote, dev, scans, prev, pulled, cancelAt, xferVars,
                   cloudVars, lsVars>>

NextScan ==
    \/ handle_cancel
    \/ handle_start_operation_rejected
    \/ handle_start_find_duplicates
    \/ compute_hashes_begin
    \/ compute_hashes_poll
    \/ compute_hashes_remote
    \/ compute_hashes_size
    \/ compute_hashes_pull
    \/ compute_hashes_local
    \/ find_duplicates_finish

SpecScan == InitScan /\ [][NextScan]_vars

(* ------------------------ group_by_hash on any map --------------------- *)

\* The values of a hash map given to group_by_hash: digests, and the falsy
\* values "" and None.
HashValues == {md5("c1"), md5("c2"), EmptyString, None}

\* The hash maps over the remote files: dicts with distinct keys, in any
\* insertion order.
HashMaps ==
    { m \in UNION { [1..n -> Paths \X HashValues] : n \in 0..Cardinality(Paths) } :
          \A k, l \in DOMAIN m : m[k][1] = m[l][1] => k = l }

\* group_by_hash is about to be called on a hash map.
InitGroup ==
    /\ stop_event = FALSE
    /\ pc = "gb_call"
    /\ \E m \in HashMaps :
          /\ hmap = Some(m)
          /\ mapping = m
          /\ file_list = [k \in DOMAIN m |-> m[k][1]]
    /\ i = Len(file_list) + 1
    /\ local = None
    /\ fs = NoAnswers
    /\ content = [p \in Paths |-> "c1"]
    /\ remote = Paths
    /\ dev = [route |-> NoAnswers, size |-> NoAnswers, pull |-> NoAnswers, lhash |-> NoAnswers]
    /\ progress = <<0, 0>>
    /\ scan_complete = << >>
    /\ scans = 1
    /\ prev = << >>
    /\ pulled = {}
    /\ cancelAt = 0
    /\ is_move_op = FALSE
    /\ dest_folder = None
    /\ success_count = 0
    /\ failed_count = 0
    /\ target_dir = None
    /\ final_local_path = None
    /\ trace = << >>
    /\ operation_complete = << >>
    /\ CloudIdle
    /\ LsIdle

\* duplicates, uniques = group_by_hash(hmap), kept as the scan_complete payload.
group_by_hash_call ==
    /\ pc = "gb_call"
    /\ LET g == group_by_hash(hmap[1])
       IN  scan_complete' =
               Append(scan_complete,
                      [all_files |-> file_list, uniques |-> g.uniques,
                       duplicates |-> g.duplicates])
    /\ pc' = "gb_ret"
    /\ UNCHANGED <<stop_event, file_list, i, mapping, hmap, local, fs, content,
                   remote, dev, progress, scans, prev, pulled, cancelAt, xferVars,
                   cloudVars, lsVars>>

NextGroup == group_by_hash_call

SpecGroup == InitGroup /\ [][NextGroup]_vars

(* --------------------------- destination path -------------------------- *)

\* mimetypes.guess_type(filename)[0] as <<main type, subtype>>, by extension.
guess_type(p) ==
    CASE p.ext = ".jpg"  -> <<"image", "jpeg">>
      [] p.ext = ".mp4"  -> <<"video", "mp4">>
      [] p.ext = ".mp3"  -> <<"audio", "mpeg">>
      [] p.ext = ".txt"  -> <<"text", "plain">>
      [] p.ext = ".pdf"  -> <<"application", "pdf">>
      [] p.ext = ".docx" ->
            <<"application", "vnd.openxmlformats-officedocument.wordprocessingml.document">>
      [] p.ext = ".zip"  -> <<"application", "zip">>
      [] OTHER -> None

doc_extensions ==
    {".pdf", ".doc", ".docx", ".ppt", ".pptx", ".xls", ".xlsx", ".odt", ".txt", ".rtf"}

\* 'document' in sub_type, and any(t in sub_type for t in archive_types), on
\* the subtypes of guess_type.
HasDocument(sub_type) ==
    sub_type = "vnd.openxmlformats-officedocument.wordprocessingml.document"

HasArchiveType(sub_type) == sub_type = "zip"

get_file_category(p) ==
    LET mtype == guess_type(p)
    IN  IF mtype = None THEN "Others"
        ELSE IF mtype[1] = "image" THEN "Photos"
        ELSE IF mtype[1] = "video" THEN "Videos"
        ELSE IF mtype[1] = "audio" THEN "Audio"
        ELSE IF mtype[1] = "text" \/ p.ext \in doc_extensions \/ HasDocument(mtype[2])
             THEN "Documents"
        ELSE IF mtype[1] = "application" /\ HasArchiveType(mtype[2]) THEN "Archives"
        ELSE "Others"

\* What stat -c %Y answers for a path: nothing, or seconds since the epoch
\* (1 March 2024 and 31 March 2024 here).
MTimes == {None, Some(1709251200), Some(1711843200)}

\* Year and month of a timestamp (host clock in UTC), by the civil-calendar
\* computation on days since the epoch.
YearMonth(ts) ==
    LET z   == (ts \div 86400) + 719468
        era == z \div 146097
        doe == z - era * 146097
        yoe == (doe - doe \div 1460 + doe \div 36524 - doe \div 146096) \div 365
        doy == doe - (365 * yoe + yoe \div 4 - yoe \div 100)
        mp  == (5 * doy + 2) \div 153
        m   == IF mp < 10 THEN mp + 3 ELSE mp - 9
        y   == yoe + era * 400 + (IF m <= 2 THEN 1 ELSE 0)
    IN  <<y, m>>

MonthName(m) ==
    << "January", "February", "March", "April", "May", "June", "July", "August",
       "September", "October", "November", "December" >>[m]

\* strftime('%Y_%B') as <<year, month name>>; "Unknown_Date" for None.
get_date_folder_name(timestamp) ==
    IF timestamp = None THEN <<"Unknown_Date">>
    ELSE <<YearMonth(timestamp[1])[1], MonthName(YearMonth(timestamp[1])[2])>>

\* os.path.splitext(remote)[1].strip('.'), "no_extension" when it is empty.
strip_dot(ext) ==
    CASE ext = ".jpg"  -> "jpg"
      [] ext = ".mp4"  -> "mp4"
      [] ext = ".mp3"  -> "mp3"
      [] ext = ".txt"  -> "txt"
      [] ext = ".pdf"  -> "pdf"
      [] ext = ".docx" -> "docx"
      [] ext = ".zip"  -> "zip"
      [] OTHER -> ext

extension_folder_of(p) ==
    IF strip_dot(splitext1(p)) = "" THEN "no_extension" ELSE strip_dot(splitext1(p))

\* The folder a request names as dest_folder.
DestFolder == "dest"

\* Faulty variant: the remote directory is kept as a folder of the destination.
target_dir_of_with_dir(p, timestamp) ==
    <<DestFolder, "My Album", get_file_category(p), extension_folder_of(p),
      get_date_folder_name(timestamp), p.dir>>

\* os.path.join(dest_folder, "My Album", category, extension_folder, date_folder)
target_dir_of(p, timestamp) ==
    <<DestFolder, "My Album", get_file_category(p), extension_folder_of(p),
      get_date_folder_name(timestamp)>>

final_local_path_of(p, timestamp) == <<target_dir_of(p, timestamp), basename(p)>>

\* The destination paths of the remote files, and the content of a file that
\* was in the destination folder before the transfer.
DestPaths == { final_local_path_of(p, t) : p \in Paths, t \in MTimes }

OldContent == "c0"

(* --------------------------- transfer engine --------------------------- *)

\* Replies of the confirm_overwrite round trip: skip, overwrite, another
\* value, or an exception of socketio.call (timeout, no client).
Responses == {"skip", "overwrite", "other", "error"}

remote_file == file_list[i]

Event(kind, res, existed) ==
    [kind |-> kind, file |-> remote_file, res |-> res, existed |-> existed]

\* The destination folder holds files of earlier transfers; the staging
\* directory is empty.
InitTransfer ==
    /\ stop_event = FALSE
    /\ pc = "idle"
    /\ file_list = << >>
    /\ i = 0
    /\ mapping = << >>
    /\ hmap = None
    /\ local = None
    /\ fs \in { [lp \in S |-> OldContent] : S \in SUBSET DestPaths }
    /\ content = [p \in Paths |-> IF p.dir = "DCIM" THEN "c1" ELSE "c2"]
    /\ remote = Paths
    /\ dev = [route |-> NoAnswers, size |-> NoAnswers, pull |-> NoAnswers, lhash |-> NoAnswers]
    /\ progress = <<0, 0>>
    /\ scan_complete = << >>
    /\ scans = 0
    /\ prev = << >>
    /\ pulled = {}
    /\ cancelAt = 0
    /\ is_move_op = FALSE
    /\ dest_folder = None
    /\ success_count = 0
    /\ failed_count = 0
    /\ target_dir = None
    /\ final_local_path = None
    /\ trace = << >>
    /\ operation_complete = << >>
    /\ CloudIdle
    /\ LsIdle

\* start_operation {operation: copy | move}: clears the flag, builds the file
\* list and starts transfer_or_move_files as a background task.
handle_start_transfer ==
    /\ pc = "idle"
    /\ stop_event' = FALSE
    /\ file_list' \in FileLists
    /\ is_move_op' \in BOOLEAN
    /\ dest_folder' \in {None, Some(DestFolder)}
    /\ pc' = "t_begin"
    /\ UNCHANGED <<i, fs, content, remote, progress, cancelAt, scanVars,
                   success_count, failed_count, target_dir, final_local_path,
                   trace, operation_complete,
                   cloudVars, lsVars>>

\* Lines 445-447: the counts start at 0 and progress is (0, total).
transfer_begin ==
    /\ pc = "t_begin"
    /\ success_count' = 0
    /\ failed_count' = 0
    /\ progress' = <<0, Len(file_list)>>
    /\ i' = 1
    /\ cancelAt' = 0
    /\ trace' = << >>
    /\ pc' = "t_loop"
    /\ UNCHANGED <<stop_event, file_list, fs, content, remote, scanVars,
                   is_move_op, dest_folder, target_dir, final_local_path, operation_complete,
                   cloudVars, lsVars>>

\* Faulty variant: the flag is seen and the loop goes on.
transfer_poll_no_break ==
    /\ pc = "t_loop"
    /\ IF i > Len(file_list)
       THEN /\ pc' = "t_end"
            /\ UNCHANGED <<cancelAt, target_dir, final_local_path>>
       ELSE IF dest_folder = None
       THEN /\ pc' = "t_raised"
            /\ cancelAt' = IF stop_event THEN i ELSE cancelAt
            /\ UNCHANGED <<target_dir, final_local_path>>
       ELSE /\ cancelAt' = IF stop_event THEN i ELSE cancelAt
            /\ \E t \in MTimes :
                  /\ target_dir' = target_dir_of(remote_file, t)
                  /\ final_local_path' = final_local_path_of(remote_file, t)
            /\ pc' = IF exists(fs, final_local_path') THEN "t_confirm" ELSE "t_pull"
    /\ UNCHANGED <<stop_event, file_list, i, fs, content, remote, progress,
                   scanVars, is_move_op, dest_folder, success_count, failed_count, trace,
                   operation_complete,
                   cloudVars, lsVars>>

\* Top of an iteration (lines 449-462): the list is drained or the flag is set
\* (break); else the destination is computed and checked for an existing file.
\* os.path.join raises TypeError on a dest_folder of None, which ends the task
\* where it stands (pc = "t_raised"): nothing catches it.
transfer_poll ==
    /\ pc = "t_loop"
    /\ IF i > Len(file_list)
       THEN /\ pc' = "t_end"
            /\ UNCHANGED <<cancelAt, target_dir, final_local_path>>
       ELSE IF stop_event
       THEN /\ cancelAt' = i
            /\ pc' = "t_end"
            /\ UNCHANGED <<target_dir, final_local_path>>
       ELSE IF dest_folder = None
       THEN /\ pc' = "t_raised"
            /\ UNCHANGED <<cancelAt, target_dir, final_local_path>>
       ELSE /\ \E t \in MTimes :
                  /\ target_dir' = target_dir_of(remote_file, t)
                  /\ final_local_path' = final_local_path_of(remote_file, t)
            /\ pc' = IF exists(fs, final_local_path') THEN "t_confirm" ELSE "t_pull"
            /\ UNCHANGED cancelAt
    /\ UNCHANGED <<stop_event, file_list, i, fs, content, remote, progress,
                   scanVars, is_move_op, dest_folder, success_count, failed_count, trace,
                   operation_complete,
                   cloudVars, lsVars>>

\* Faulty variant: a skip reply is logged and the file is pulled all the same.
transfer_confirm_no_continue ==
    /\ pc = "t_confirm"
    /\ \E response \in Responses :
          /\ trace' = Append(trace, Event("confirm", response, TRUE))
          /\ IF response = "error"
             THEN /\ failed_count' = failed_count + 1
                  /\ progress' = <<i, Len(file_list)>>
                  /\ i' = i + 1
                  /\ pc' = "t_loop"
             ELSE /\ pc' = "t_pull"
                  /\ UNCHANGED <<failed_count, progress, i>>
    /\ UNCHANGED <<stop_event, file_list, fs, content, remote, cancelAt, scanVars,
                   is_move_op, dest_folder, success_count, target_dir, final_local_path,
                   operation_complete,
                   cloudVars, lsVars>>

\* Faulty variant: an exception of the call is logged and the file is pulled
\* as after a reply of overwrite.
transfer_confirm_error_proceeds ==
    /\ pc = "t_confirm"
    /\ \E response \in Responses :
          /\ trace' = Append(trace, Event("confirm", response, TRUE))
          /\ IF response = "skip"
             THEN /\ failed_count' = failed_count + 1
                  /\ progress' = <<i, Len(file_list)>>
                  /\ i' = i + 1
                  /\ pc' = "t_loop"
             ELSE /\ pc' = "t_pull"
                  /\ UNCHANGED <<failed_count, progress, i>>
    /\ UNCHANGED <<stop_event, file_list, fs, content, remote, cancelAt, scanVars,
                   is_move_op, dest_folder, success_count, target_dir,
                   final_local_path, operation_complete,
                   cloudVars, lsVars>>

\* Lines 462-478: the reply to confirm_overwrite.  skip, or an exception of
\* the call, counts the file as failed and continues; any other reply goes on
\* to the pull.
transfer_confirm ==
    /\ pc = "t_confirm"
    /\ \E response \in Responses :
          /\ trace' = Append(trace, Event("confirm", response, TRUE))
          /\ IF response = "skip" \/ response = "error"
             THEN /\ failed_count' = failed_count + 1
                  /\ progress' = <<i, Len(file_list)>>
                  /\ i' = i + 1
                  /\ pc' = "t_loop"
             ELSE /\ pc' = "t_pull"
                  /\ UNCHANGED <<failed_count, progress, i>>
    /\ UNCHANGED <<stop_event, file_list, fs, content, remote, cancelAt, scanVars,
                   is_move_op, dest_folder, success_count, target_dir, final_local_path,
                   operation_complete,
                   cloudVars, lsVars>>

\* Faulty variant: the remote delete follows the pull whatever its result.
transfer_pull_always_rm ==
    /\ pc = "t_pull"
    /\ \E out \in PullOutcomes :
          LET r == adb_pull(fs, remote_file, target_dir,
                            IF remote_file \in remote THEN out ELSE "fail",
                            content[remote_file])
          IN  /\ fs' = r.fs
              /\ trace' = Append(trace,
                                 Event("pull", IF r.ret # None THEN "ok" ELSE "fail",
                                       exists(fs, final_local_path)))
              /\ IF is_move_op
                 THEN /\ pc' = "t_rm"
                      /\ UNCHANGED <<success_count, failed_count, progress, i>>
                 ELSE /\ IF r.ret # None
                         THEN /\ success_count' = success_count + 1
                              /\ UNCHANGED failed_count
                         ELSE /\ failed_count' = failed_count + 1
                              /\ UNCHANGED success_count
                      /\ progress' = <<i, Len(file_list)>>
                      /\ i' = i + 1
                      /\ pc' = "t_loop"
    /\ UNCHANGED <<stop_event, file_list, content, remote, cancelAt, scanVars,
                   is_move_op, dest_folder, target_dir, final_local_path, operation_complete,
                   cloudVars, lsVars>>

\* Faulty variant: a failed pull is counted and ends the loop.
transfer_pull_fail_breaks ==
    /\ pc = "t_pull"
    /\ \E out \in PullOutcomes :
          LET r == adb_pull(fs, remote_file, target_dir,
                            IF remote_file \in remote THEN out ELSE "fail",
                            content[remote_file])
          IN  /\ fs' = r.fs
              /\ trace' = Append(trace,
                                 Event("pull", IF r.ret # None THEN "ok" ELSE "fail",
                                       exists(fs, final_local_path)))
              /\ IF r.ret # None /\ is_move_op
                 THEN /\ pc' = "t_rm"
                      /\ UNCHANGED <<success_count, failed_count, progress, i>>
                 ELSE IF r.ret # None
                 THEN /\ success_count' = success_count + 1
                      /\ progress' = <<i, Len(file_list)>>
                      /\ i' = i + 1
                      /\ pc' = "t_loop"
                      /\ UNCHANGED failed_count
                 ELSE /\ failed_count' = failed_count + 1
                      /\ pc' = "t_end"
                      /\ UNCHANGED <<success_count, progress, i>>
    /\ UNCHANGED <<stop_event, file_list, content, remote, cancelAt, scanVars,
                   is_move_op, dest_folder, target_dir, final_local_path,
                   operation_complete,
                   cloudVars, lsVars>>

\* Lines 481-494 up to the remote delete: makedirs, adb_pull into target_dir;
\* a failed pull counts as failed, a successful one counts as success in copy
\* mode and is followed by adb_rm in move mode.
transfer_pull ==
    /\ pc = "t_pull"
    /\ \E out \in PullOutcomes :
          LET r == adb_pull(fs, remote_file, target_dir,
                            IF remote_file \in remote THEN out ELSE "fail",
                            content[remote_file])
          IN  /\ fs' = r.fs
              /\ trace' = Append(trace,
                                 Event("pull", IF r.ret # None THEN "ok" ELSE "fail",
                                       exists(fs, final_local_path)))
              /\ IF r.ret # None /\ is_move_op
                 THEN /\ pc' = "t_rm"
                      /\ UNCHANGED <<success_count, failed_count, progress, i>>
                 ELSE /\ IF r.ret # None
                         THEN /\ success_count' = success_count + 1
                              /\ UNCHANGED failed_count
                         ELSE /\ failed_count' = failed_count + 1
                              /\ UNCHANGED success_count
                      /\ progress' = <<i, Len(file_list)>>
                      /\ i' = i + 1
                      /\ pc' = "t_loop"
    /\ UNCHANGED <<stop_event, file_list, content, remote, cancelAt, scanVars,
                   is_move_op, dest_folder, target_dir, final_local_path, operation_complete,
                   cloudVars, lsVars>>

\* Faulty variant: a pulled file counts as moved whether or not adb_rm worked.
transfer_delete_counts_success ==
    /\ pc = "t_rm"
    /\ \E delete_success \in BOOLEAN :
          /\ remote' = IF delete_success THEN remote \ {remote_file} ELSE remote
          /\ trace' = Append(trace,
                             Event("rm", IF delete_success THEN "ok" ELSE "fail", FALSE))
          /\ success_count' = success_count + 1
          /\ UNCHANGED failed_count
    /\ progress' = <<i, Len(file_list)>>
    /\ i' = i + 1
    /\ pc' = "t_loop"
    /\ UNCHANGED <<stop_event, file_list, fs, content, cancelAt, scanVars,
                   is_move_op, dest_folder, target_dir, final_local_path, operation_complete,
                   cloudVars, lsVars>>

\* Lines 486-494 in move mode: adb_rm(remote); success counts only when the
\* delete succeeded.
transfer_delete ==
    /\ pc = "t_rm"
    /\ \E delete_success \in BOOLEAN :
          /\ remote' = IF delete_success THEN remote \ {remote_file} ELSE remote
          /\ trace' = Append(trace,
                             Event("rm", IF delete_success THEN "ok" ELSE "fail", FALSE))
          /\ IF delete_success
             THEN /\ success_count' = success_count + 1
                  /\ UNCHANGED failed_count
             ELSE /\ failed_count' = failed_count + 1
                  /\ UNCHANGED success_count
    /\ progress' = <<i, Len(file_list)>>
    /\ i' = i + 1
    /\ pc' = "t_loop"
    /\ UNCHANGED <<stop_event, file_list, fs, content, cancelAt, scanVars,
                   is_move_op, dest_folder, target_dir, final_local_path, operation_complete,
                   cloudVars, lsVars>>

\* Faulty variant: the completion is emitted from the top of an iteration,
\* whether or not the list is drained.
transfer_end_early ==
    /\ pc \in {"t_loop", "t_end"}
    /\ operation_complete' =
           Append(operation_complete,
                  [success |-> success_count, failed |-> failed_count,
                   operation |-> IF is_move_op THEN "moving" ELSE "copying"])
    /\ progress' = <<0, 0>>
    /\ pc' = "done"
    /\ UNCHANGED <<stop_event, file_list, i, fs, content, remote, cancelAt,
                   scanVars, is_move_op, dest_folder, success_count, failed_count,
                   target_dir, final_local_path, trace,
                   cloudVars, lsVars>>

\* Lines 496-498: operation_complete with the counts, then progress (0, 0).
transfer_end ==
    /\ pc = "t_end"
    /\ operation_complete' =
           Append(operation_complete,
                  [success |-> success_count, failed |-> failed_count,
                   operation |-> IF is_move_op THEN "moving" ELSE "copying"])
    /\ progress' = <<0, 0>>
    /\ pc' = "done"
    /\ UNCHANGED <<stop_event, file_list, i, fs, content, remote, cancelAt,
                   scanVars, is_move_op, dest_folder, success_count, failed_count, target_dir,
                   final_local_path, trace,
                   cloudVars, lsVars>>

NextTransfer ==
    \/ handle_cancel
    \/ handle_start_operation_rejected
    \/ handle_start_transfer
    \/ transfer_begin
    \/ transfer_poll
    \/ transfer_confirm
    \/ transfer_pull
    \/ transfer_delete
    \/ transfer_end

SpecTransfer == InitTransfer /\ [][NextTransfer]_vars

\* A step of the background task running transfer_or_move_files.
TransferStep ==
    \/ transfer_begin
    \/ transfer_poll
    \/ transfer_confirm
    \/ transfer_pull
    \/ transfer_delete
    \/ transfer_end

\* The background task is scheduled and every call it blocks in returns: the
\* adb commands run under a timeout (10 to 300 s), socketio.call under one of
\* 600 s.
FairTransfer == SpecTransfer /\ WF_vars(TransferStep)

(* ------------------------------ cloud tasks ---------------------------- *)

\* blob_path: os.path.relpath(local_path, HASH_FALLBACK_DIR) of the staged
\* copy HASH_FALLBACK_DIR/<basename>, i.e. the basename of the remote file.
blob_path_of(p) == basename(p)

BlobNames == { blob_path_of(p) : p \in Paths }

\* An object of the container: its content, and the remote file it was
\* uploaded from (None for an object of an earlier backup).
Object(source, c) == [source |-> source, content |-> c]

\* Content of the file that open(local_path, "wb") leaves when the download
\* fails.
Truncated == "empty"

\* list_blobs: the blob names of the container, in name order.
NameRank(n) == IF n[1] = "a" THEN 0 ELSE 1

RECURSIVE SortedNames(_)
SortedNames(S) ==
    IF S = {} THEN << >>
    ELSE LET m == CHOOSE x \in S : \A y \in S : NameRank(x) <= NameRank(y)
         IN  <<m>> \o SortedNames(S \ {m})

\* The variables no cloud task writes.
cloudFrame ==
    <<content, remote, mapping, hmap, dev, scan_complete, scans, prev, pulled,
      is_move_op, target_dir, final_local_path, lsVars>>

\* The container holds objects of earlier backups; the staging directory and
\* the destination folder are empty.
InitCloud ==
    /\ stop_event = FALSE
    /\ pc = "idle"
    /\ file_list = << >>
    /\ i = 0
    /\ mapping = << >>
    /\ hmap = None
    /\ local = None
    /\ fs = NoAnswers
    /\ content = [p \in Paths |-> IF p.dir = "DCIM" THEN "c1" ELSE "c2"]
    /\ remote = Paths
    /\ dev = [route |-> NoAnswers, size |-> NoAnswers, pull |-> NoAnswers, lhash |-> NoAnswers]
    /\ progress = <<0, 0>>
    /\ scan_complete = << >>
    /\ scans = 0
    /\ prev = << >>
    /\ pulled = {}
    /\ cancelAt = 0
    /\ is_move_op = FALSE
    /\ dest_folder = None
    /\ success_count = 0
    /\ failed_count = 0
    /\ target_dir = None
    /\ final_local_path = None
    /\ trace = << >>
    /\ operation_complete = << >>
    /\ op_type = "none"
    /\ user_info = None
    /\ container \in { [n \in S |-> Object(None, OldContent)] : S \in SUBSET BlobNames }
    /\ blobs = << >>
    /\ LsIdle

\* start_operation {operation: cloud_backup, paths, user_id}: clears the flag,
\* builds the file list and starts cloud_upload_task.
handle_start_cloud_backup ==
    /\ pc = "idle"
    /\ stop_event' = FALSE
    /\ file_list' \in FileLists
    /\ op_type' = "cloud_backup"
    /\ pc' = "u_begin"
    /\ UNCHANGED <<cloudFrame, i, fs, progress, cancelAt, local, dest_folder,
                   success_count, failed_count, trace, operation_complete,
                   user_info, container, blobs>>

\* start_operation {operation: cloud_restore, user_id, dest_folder}: clears
\* the flag and starts cloud_download_task.
handle_start_cloud_restore ==
    /\ pc = "idle"
    /\ stop_event' = FALSE
    /\ dest_folder' = Some(DestFolder)
    /\ op_type' = "cloud_restore"
    /\ pc' = "d_begin"
    /\ UNCHANGED <<cloudFrame, file_list, i, fs, progress, cancelAt, local,
                   success_count, failed_count, trace, operation_complete,
                   user_info, container, blobs>>

\* Lines 501-510: users.get(user_id); when the user is not found the task
\* logs an error and returns; else the counts start at 0.
cloud_upload_begin ==
    /\ pc = "u_begin"
    /\ \E info \in {None, Some("container")} :
          /\ user_info' = info
          /\ IF info = None
             THEN /\ pc' = "done"
                  /\ UNCHANGED <<success_count, failed_count, i, cancelAt, trace>>
             ELSE /\ success_count' = 0
                  /\ failed_count' = 0
                  /\ i' = 1
                  /\ cancelAt' = 0
                  /\ trace' = << >>
                  /\ pc' = "u_loop"
    /\ UNCHANGED <<cloudFrame, stop_event, file_list, fs, progress, local,
                   dest_folder, operation_complete, op_type, container, blobs>>

\* Lines 512-515: the list is drained, or the flag is set (break), or the
\* file is taken up.
cloud_upload_poll ==
    /\ pc = "u_loop"
    /\ IF i > Len(file_list)
       THEN /\ pc' = "u_end"
            /\ UNCHANGED cancelAt
       ELSE IF stop_event
       THEN /\ cancelAt' = i
            /\ pc' = "u_end"
       ELSE /\ pc' = "u_pull"
            /\ UNCHANGED cancelAt
    /\ UNCHANGED <<cloudFrame, stop_event, file_list, i, fs, progress, local,
                   dest_folder, success_count, failed_count, trace,
                   operation_complete, cloudVars>>

\* Lines 517-521: local_path = adb_pull(file_path, HASH_FALLBACK_DIR); a
\* failed pull counts as failed and continues.
cloud_upload_pull ==
    /\ pc = "u_pull"
    /\ \E out \in PullOutcomes :
          LET r == adb_pull(fs, file_list[i], HASH_FALLBACK_DIR,
                            IF file_list[i] \in remote THEN out ELSE "fail",
                            content[file_list[i]])
          IN  /\ fs' = r.fs
              /\ trace' = Append(trace,
                                 Event("pull", IF r.ret # None THEN "ok" ELSE "fail", FALSE))
              /\ IF r.ret = None
                 THEN /\ failed_count' = failed_count + 1
                      /\ i' = i + 1
                      /\ pc' = "u_loop"
                      /\ UNCHANGED local
                 ELSE /\ local' = r.ret
                      /\ pc' = "u_upload"
                      /\ UNCHANGED <<failed_count, i>>
    /\ UNCHANGED <<cloudFrame, stop_event, file_list, progress, cancelAt,
                   dest_folder, success_count, operation_complete, cloudVars>>

\* Faulty variant: the staged copy is removed only when the upload succeeded.
cloud_upload_attempt_keep_on_error ==
    /\ pc = "u_upload"
    /\ \E res \in {"ok", "azure_error"} :
          /\ trace' = Append(trace,
                             Event("upload", res, blob_path_of(remote_file) \in DOMAIN container))
          /\ IF res = "ok"
             THEN /\ container' = write(container, blob_path_of(remote_file),
                                        Object(Some(remote_file), fs[local]))
                  /\ success_count' = success_count + 1
                  /\ fs' = remove(fs, local)
                  /\ UNCHANGED failed_count
             ELSE /\ failed_count' = failed_count + 1
                  /\ UNCHANGED <<container, success_count, fs>>
    /\ progress' = <<i, Len(file_list)>>
    /\ i' = i + 1
    /\ pc' = "u_loop"
    /\ UNCHANGED <<cloudFrame, stop_event, file_list, cancelAt, local,
                   dest_folder, operation_complete, op_type, user_info, blobs>>

\* Lines 523-538: the upload of the staged copy to the key blob_path with
\* overwrite=True succeeds or raises AzureError; finally the staged copy is
\* removed; then update_progress(i, total).
cloud_upload_attempt ==
    /\ pc = "u_upload"
    /\ \E res \in {"ok", "azure_error"} :
          /\ trace' = Append(trace,
                             Event("upload", res, blob_path_of(remote_file) \in DOMAIN container))
          /\ IF res = "ok"
             THEN /\ container' = write(container, blob_path_of(remote_file),
                                        Object(Some(remote_file), fs[local]))
                  /\ success_count' = success_count + 1
                  /\ UNCHANGED failed_count
             ELSE /\ failed_count' = failed_count + 1
                  /\ UNCHANGED <<container, success_count>>
    /\ fs' = remove(fs, local)
    /\ progress' = <<i, Len(file_list)>>
    /\ i' = i + 1
    /\ pc' = "u_loop"
    /\ UNCHANGED <<cloudFrame, stop_event, file_list, cancelAt, local,
                   dest_folder, operation_complete, op_type, user_info, blobs>>

\* Lines 540-541: operation_complete with the counts; the task ends there.
cloud_upload_end ==
    /\ pc = "u_end"
    /\ operation_complete' = Append(operation_complete,
            [success |-> success_count, failed |-> failed_count, operation |-> "cloud_backup"])
    /\ pc' = "done"
    /\ UNCHANGED <<cloudFrame, stop_event, file_list, i, fs, progress, cancelAt,
                   local, dest_folder, success_count, failed_count, trace, cloudVars>>

\* local_path of cloud_download_task: os.path.join(dest_folder, blob.name).
restore_path_of(folder, name) == <<folder, name>>

\* Lines 544-565: users.get(user_id) and list_blobs(); when the user is not
\* found or the listing raises, operation_complete carries 0 and 0 and the
\* task returns; else the counts start at 0 and update_progress(0, total).
cloud_download_begin ==
    /\ pc = "d_begin"
    /\ \E info \in {None, Some("container")}, listed \in BOOLEAN :
          /\ user_info' = info
          /\ info = None => listed
          /\ IF info = None \/ ~listed
             THEN /\ operation_complete' = Append(operation_complete,
                        [success |-> 0, failed |-> 0, operation |-> "cloud_restore"])
                  /\ pc' = "done"
                  /\ UNCHANGED <<blobs, success_count, failed_count, i, cancelAt,
                                 trace, progress>>
             ELSE /\ blobs' = SortedNames(DOMAIN container)
                  /\ success_count' = 0
                  /\ failed_count' = 0
                  /\ progress' = <<0, Cardinality(DOMAIN container)>>
                  /\ i' = 1
                  /\ cancelAt' = 0
                  /\ trace' = << >>
                  /\ pc' = "d_loop"
                  /\ UNCHANGED operation_complete
    /\ UNCHANGED <<cloudFrame, stop_event, file_list, fs, local, dest_folder,
                   op_type, container>>

\* Lines 567-570: the listing is drained, or the flag is set (break), or the
\* blob is taken up.
cloud_download_poll ==
    /\ pc = "d_loop"
    /\ IF i > Len(blobs)
       THEN /\ pc' = "d_end"
            /\ UNCHANGED cancelAt
       ELSE IF stop_event
       THEN /\ cancelAt' = i
            /\ pc' = "d_end"
       ELSE /\ pc' = "d_item"
            /\ UNCHANGED cancelAt
    /\ UNCHANGED <<cloudFrame, stop_event, file_list, i, fs, progress, local,
                   dest_folder, success_count, failed_count, trace,
                   operation_complete, cloudVars>>

\* Lines 572-586: update_progress(i, total); open(local_path, "wb") truncates
\* the file; the download fills it or raises AzureError.
cloud_download_item ==
    /\ pc = "d_item"
    /\ progress' = <<i, Len(blobs)>>
    /\ \E res \in {"ok", "azure_error"} :
          LET local_path == restore_path_of(dest_folder[1], blobs[i])
          IN  /\ trace' = Append(trace,
                     [kind |-> "download", file |-> blobs[i], res |-> res,
                      existed |-> exists(fs, local_path)])
              /\ IF res = "ok"
                 THEN /\ fs' = write(fs, local_path, container[blobs[i]].content)
                      /\ success_count' = success_count + 1
                      /\ UNCHANGED failed_count
                 ELSE /\ fs' = write(fs, local_path, Truncated)
                      /\ failed_count' = failed_count + 1
                      /\ UNCHANGED success_count
    /\ i' = i + 1
    /\ pc' = "d_loop"
    /\ UNCHANGED <<cloudFrame, stop_event, file_list, cancelAt, local,
                   dest_folder, operation_complete, cloudVars>>

\* Lines 588-590: operation_complete with the counts, then
\* update_progress(0, 0).
cloud_download_end ==
    /\ pc = "d_end"
    /\ operation_complete' = Append(operation_complete,
            [success |-> success_count, failed |-> failed_count, operation |-> "cloud_restore"])
    /\ progress' = <<0, 0>>
    /\ pc' = "done"
    /\ UNCHANGED <<cloudFrame, stop_event, file_list, i, fs, cancelAt, local,
                   dest_folder, success_count, failed_count, trace, cloudVars>>

NextCloud ==
    \/ handle_cancel
    \/ handle_start_operation_rejected
    \/ handle_start_cloud_backup
    \/ handle_start_cloud_restore
    \/ cloud_upload_begin
    \/ cloud_upload_poll
    \/ cloud_upload_pull
    \/ cloud_upload_attempt
    \/ cloud_upload_end
    \/ cloud_download_begin
    \/ cloud_download_poll
    \/ cloud_download_item
    \/ cloud_download_end

SpecCloud == InitCloud /\ [][NextCloud]_vars

(* -------------------------------- adb_ls ------------------------------- *)

\* Bounds of the listing: lines of the output, tokens of a line.
MaxLines == 2
MaxTokens == 9

\* A token is a sequence of characters, a line the sequence of its
\* whitespace-separated tokens (line.split()); a blank line has none.
Digits == <<"0", "1", "2", "3", "4", "5", "6", "7", "8", "9">>

\* str.count(ch)
count(token, ch) == Cardinality({ k \in DOMAIN token : token[k] = ch })

\* str.startswith(ch)
startswith(token, ch) == token # << >> /\ token[1] = ch

\* str.isdigit()
isdigit(token) ==
    /\ token # << >>
    /\ \A k \in DOMAIN token : \E d \in DOMAIN Digits : Digits[d] = token[k]

\* int() of a token of digits
RECURSIVE int(_)
int(token) ==
    IF token = << >> THEN 0
    ELSE LET last == token[Len(token)]
             d == CHOOSE x \in DOMAIN Digits : Digits[x] = last
         IN  10 * int(SubSeq(token, 1, Len(token) - 1)) + (d - 1)

\* " ".join(parts[from:]), from counted from 0 as in the code
RECURSIVE join_from(_, _)
join_from(parts, from) ==
    IF from >= Len(parts) THEN << >>
    ELSE IF from = Len(parts) - 1 THEN parts[from + 1]
    ELSE parts[from + 1] \o <<" ">> \o join_from(parts, from + 1)

\* size_formatted: the unit chosen by the thresholds; the number shown is
\* bytes divided by the unit, kept here as the number of bytes.
size_formatted_of(size_bytes) ==
    [bytes |-> size_bytes,
     unit  |-> IF size_bytes > 1024 * 1024 * 1024 THEN "GB"
               ELSE IF size_bytes > 1024 * 1024 THEN "MB"
               ELSE IF size_bytes > 1024 THEN "KB"
               ELSE "B"]

\* The body of the loop of adb_ls for one line: the line is skipped, yields an
\* entry, or the evaluation of parts[6] raises IndexError.
ls_line(parts) ==
    IF Len(parts) < 6 THEN <<"skip">>
    ELSE IF Len(parts) < 7 THEN <<"raise", "IndexError">>
    ELSE LET filename == IF count(parts[7], ":") = 1
                         THEN join_from(parts, 7)
                         ELSE join_from(parts, 8)
             perms == parts[1]
         IN  IF filename = << >> \/ filename \in {<<".">>, <<".", ".">>}
             THEN <<"skip">>
             ELSE IF startswith(perms, "d")
             THEN <<"entry", [name |-> filename \o <<"/">>, size |-> <<"-">>, is_dir |-> TRUE]>>
             ELSE IF startswith(perms, "-")
             THEN LET size_str == IF isdigit(parts[5]) THEN parts[5] ELSE <<"0">>
                  IN  <<"entry", [name |-> filename,
                                  size |-> size_formatted_of(int(size_str)),
                                  is_dir |-> FALSE]>>
             ELSE <<"skip">>

\* The loop of adb_ls over the non-blank lines, results so far in acc.
RECURSIVE ls_loop(_, _)
ls_loop(lines, acc) ==
    IF lines = << >> THEN <<"return", acc>>
    ELSE LET r == ls_line(Head(lines))
         IN  IF r[1] = "raise" THEN r
             ELSE IF r[1] = "entry" THEN ls_loop(Tail(lines), Append(acc, r[2]))
             ELSE ls_loop(Tail(lines), acc)

\* adb_ls: what the call gives its caller, <<"return", list>> or
\* <<"raise", exception>>, for the outcome of the ls command.
adb_ls(ok, out) ==
    IF ~ok THEN <<"return", << >> >>
    ELSE ls_loop(SelectSeq(out, LAMBDA ln : ln # << >>), << >>)

\* Lines of ls -l: permissions, links, owner, group, size, date, time, name;
\* directories, files and links, sizes that are and are not numbers, times
\* with and without seconds, names of several words, and every prefix of
\* such a line down to the blank line.
FullLines ==
    { <<perms, <<"1">>, <<"r">>, <<"s">>, size, <<"2", "0", "-", "1">>, tm, name, <<"b">>, <<"c">>>> :
        perms \in {<<"d", "r">>, <<"-", "r">>, <<"l", "r">>},
        size \in {<<"4", "2">>, <<"2", "0", "4", "8">>, <<"4", ",", "2">>},
        tm \in {<<"1", ":", "0">>, <<"1", ":", "0", ":", "0">>},
        name \in {<<"a">>, <<".">>} }

Lines == { SubSeq(full, 1, n) : full \in FullLines, n \in 0..MaxTokens }

Outputs == UNION { [1..n -> Lines] : n \in 0..MaxLines }

InitLs ==
    /\ stop_event = FALSE
    /\ pc = "ls_call"
    /\ file_list = << >>
    /\ i = 0
    /\ mapping = << >>
    /\ hmap = None
    /\ local = None
    /\ fs = NoAnswers
    /\ content = [p \in Paths |-> IF p.dir = "DCIM" THEN "c1" ELSE "c2"]
    /\ remote = Paths
    /\ dev = [route |-> NoAnswers, size |-> NoAnswers, pull |-> NoAnswers, lhash |-> NoAnswers]
    /\ progress = <<0, 0>>
    /\ scan_complete = << >>
    /\ scans = 0
    /\ prev = << >>
    /\ pulled = {}
    /\ cancelAt = 0
    /\ is_move_op = FALSE
    /\ dest_folder = None
    /\ success_count = 0
    /\ failed_count = 0
    /\ target_dir = None
    /\ final_local_path = None
    /\ trace = << >>
    /\ operation_complete = << >>
    /\ CloudIdle
    /\ success \in BOOLEAN
    /\ stdout \in Outputs
    /\ results = None

\* list_path: jsonify(adb_ls(path)).
adb_ls_call ==
    /\ pc = "ls_call"
    /\ results' = adb_ls(success, stdout)
    /\ pc' = "ls_ret"
    /\ UNCHANGED <<stop_event, file_list, i, fs, content, remote, progress, cancelAt,
                   scanVars, xferVars, cloudVars, success, stdout>>

NextLs == adb_ls_call

SpecLs == InitLs /\ [][NextLs]_vars

(* ------------------------- claims: duplicate scan ---------------------- *)

\* The paths listed in the duplicate groups, the paths listed in uniques, the
\* first path of every duplicate group.
GroupPaths(g) ==
    UNION { { g.duplicates[k].files[j] : j \in DOMAIN g.duplicates[k].files }
            : k \in DOMAIN g.duplicates }

UniquePaths(g) == { g.uniques[k] : k \in DOMAIN g.uniques }

GroupHeads(g) == { g.duplicates[k].files[1] : k \in DOMAIN g.duplicates }

\* C1 as stated: for every hash map compute_hashes_on_phone_impl returns,
\* every path of the map is in a duplicate group or in uniques, and no path is
\* in both.
C1_PartitionDisjoint ==
    hmap # None =>
        LET g == group_by_hash(hmap[1])
        IN  /\ Keys(hmap[1]) \subseteq GroupPaths(g) \cup UniquePaths(g)
            /\ GroupPaths(g) \cap UniquePaths(g) = {}

\* C1 as amended: every path of a returned hash map is in a duplicate group or
\* in uniques (and nothing else is); the paths in both are exactly the first
\* paths of the duplicate groups.
C1_CoverWithHeads ==
    hmap # None =>
        LET g == group_by_hash(hmap[1])
        IN  /\ Keys(hmap[1]) = GroupPaths(g) \cup UniquePaths(g)
            /\ GroupPaths(g) \cap UniquePaths(g) = GroupHeads(g)

\* A scan returned a map that holds a duplicate group.
C1_Witness ==
    /\ hmap # None
    /\ pc = "done"
    /\ group_by_hash(hmap[1]).duplicates # << >>

\* C2: every duplicate group holds at least 2 paths, each mapped to the
\* group's hash by the hash map; two paths of the map with one hash are in the
\* same group, and no hash has two groups.
C2_GroupsAreHashClasses ==
    hmap # None =>
        LET m == hmap[1]
            d == group_by_hash(m).duplicates
        IN  /\ \A k \in DOMAIN d :
                  /\ Len(d[k].files) >= 2
                  /\ \A j \in DOMAIN d[k].files :
                        /\ d[k].files[j] \in Keys(m)
                        /\ Lookup(m, d[k].files[j]) = d[k].hash
            /\ \A p, q \in Keys(m) :
                  (p # q /\ Lookup(m, p) = Lookup(m, q)) =>
                      \E k \in DOMAIN d :
                          {p, q} \subseteq { d[k].files[j] : j \in DOMAIN d[k].files }
            /\ \A k, l \in DOMAIN d : d[k].hash = d[l].hash => k = l

\* A returned map in which two paths share a hash and form the one group.
C2_Witness ==
    /\ hmap # None
    /\ Len(hmap[1]) = 2
    /\ hmap[1][1][2] = hmap[1][2][2]
    /\ Len(group_by_hash(hmap[1]).duplicates) = 1

\* C7 as stated: the loop saw the flag at the top of iteration k: no hash is
\* recorded for a file of index k+1 or higher, and every entry recorded for a
\* file below k is in the result of the pipeline.
C7_EntriesKeptInResult ==
    (cancelAt # 0 /\ pc \in {"fd_ret", "done"}) =>
        /\ \A j \in (cancelAt + 1)..Len(file_list) : file_list[j] \notin Keys(mapping)
        /\ \A j \in 1..(cancelAt - 1) :
              file_list[j] \in Keys(mapping) =>
                  /\ hmap # None
                  /\ file_list[j] \in Keys(hmap[1])
                  /\ Lookup(hmap[1], file_list[j]) = Lookup(mapping, file_list[j])

\* C7 as amended: the loop saw the flag at the top of iteration k: no hash is
\* recorded for file k or a later file, and the pipeline returns None, the
\* entries recorded for the files below k being dropped with the map.
C7_CancelReturnsNone ==
    (cancelAt # 0 /\ pc \in {"fd_ret", "done"}) =>
        /\ \A j \in cancelAt..Len(file_list) : file_list[j] \notin Keys(mapping)
        /\ hmap = None

\* A scan cancelled at its second file after it recorded a hash for the first.
C7_Witness ==
    /\ pc = "done"
    /\ cancelAt = 2
    /\ file_list[1] \in Keys(mapping)

\* C8: two files of identical content that both have an entry in the hash map
\* have the same hash value.
C8_SameContentSameHash ==
    \A p, q \in Keys(mapping) :
        content[p] = content[q] => Lookup(mapping, p) = Lookup(mapping, q)

\* The files of the running scan that were processed to the end.
Processed == { file_list[j] : j \in 1..(i - 1) }

ScanRunning == pc \in {"h_loop", "h_md5", "h_size", "h_pull", "h_lhash", "fd_ret", "done"}

\* C9: a processed file for which remote hashing gave nothing was pulled when
\* its size is unknown or at most MAX_HASH_PULL_SIZE, and was neither pulled
\* nor given an entry when its size is MAX_HASH_PULL_SIZE + 1 or more.
C9_PullCeiling ==
    ScanRunning =>
        \A f \in Processed :
            (f \in DOMAIN dev.route /\ dev.route[f] = "none") =>
                /\ f \in DOMAIN dev.size
                /\ (dev.size[f] = None \/ dev.size[f][1] <= MAX_HASH_PULL_SIZE)
                       => f \in pulled
                /\ (dev.size[f] # None /\ dev.size[f][1] >= MAX_HASH_PULL_SIZE + 1)
                       => (f \notin pulled /\ f \notin Keys(mapping))

\* A file of exactly the ceiling size was pulled and hashed locally.
C9_Witness ==
    /\ ScanRunning
    /\ \E f \in Processed :
          /\ f \in DOMAIN dev.route /\ dev.route[f] = "none"
          /\ f \in DOMAIN dev.size /\ dev.size[f] = Some(MAX_HASH_PULL_SIZE)
          /\ f \in pulled
          /\ f \in Keys(mapping)

Logged(kind, res) ==
    /\ Len(trace') = Len(trace) + 1
    /\ trace'[Len(trace')].kind = kind
    /\ trace'[Len(trace')].res = res

HasEvent(kind, res) ==
    \E k \in DOMAIN trace : trace[k].kind = kind /\ trace[k].res = res

\* C3: a remote delete is issued only in move mode and right after the pull of
\* the same file succeeded; copy mode issues none; a file whose pull failed has
\* no remote delete and is still on the device.
C3_DeleteOnlyAfterPull ==
    /\ \A k \in DOMAIN trace :
          trace[k].kind = "rm" =>
              /\ is_move_op
              /\ k > 1
              /\ trace[k - 1].kind = "pull"
              /\ trace[k - 1].file = trace[k].file
              /\ trace[k - 1].res = "ok"
    /\ ~is_move_op => \A k \in DOMAIN trace : trace[k].kind # "rm"
    /\ \A k \in DOMAIN trace :
          (trace[k].kind = "pull" /\ trace[k].res = "fail") =>
              /\ \A l \in DOMAIN trace :
                    ~(trace[l].kind = "rm" /\ trace[l].file = trace[k].file)
              /\ trace[k].file \in remote

\* A move deleted one file from the device and failed to pull another.
C3_Witness ==
    /\ is_move_op
    /\ HasEvent("rm", "ok")
    /\ HasEvent("pull", "fail")
    /\ pc = "done"

\* C4: in move mode, the step in which the remote delete of a pulled file
\* fails adds one to failed_count and leaves success_count, the local copy
\* being in place and the file still on the device.
C4_FailedDeleteCountsFailed ==
    [][ (pc = "t_rm" /\ Logged("rm", "fail")) =>
            /\ is_move_op
            /\ trace[Len(trace)].kind = "pull"
            /\ trace[Len(trace)].res = "ok"
            /\ trace[Len(trace)].file = remote_file
            /\ failed_count' = failed_count + 1
            /\ success_count' = success_count
            /\ exists(fs', final_local_path)
            /\ fs'[final_local_path] = content[remote_file]
            /\ remote_file \in remote' ]_vars

\* The remote delete of the pulled file just failed.
C4_Witness ==
    /\ trace # << >>
    /\ trace[Len(trace)].kind = "rm"
    /\ trace[Len(trace)].res = "fail"
    /\ failed_count = 1
    /\ success_count = 0
    /\ exists(fs, final_local_path)

\* C5: the step that gets the reply skip for a file that exists at the
\* destination pulls nothing, deletes nothing, leaves the local files as they
\* were, adds one to failed_count and advances the loop; the file has no pull
\* and no remote delete in the whole transfer.
C5_SkipLeavesEverything ==
    /\ [][ (pc = "t_confirm" /\ Logged("confirm", "skip")) =>
               /\ exists(fs, final_local_path)
               /\ fs' = fs
               /\ remote' = remote
               /\ failed_count' = failed_count + 1
               /\ success_count' = success_count
               /\ i' = i + 1
               /\ pc' = "t_loop" ]_vars
    /\ [](\A k \in DOMAIN trace :
              (trace[k].kind = "confirm" /\ trace[k].res = "skip") =>
                  \A l \in DOMAIN trace : trace[l].file = trace[k].file => l = k)

\* A move skipped an existing file and ended.
C5_Witness ==
    /\ is_move_op
    /\ HasEvent("confirm", "skip")
    /\ failed_count >= 1
    /\ pc = "done"

\* The step deletes a file from the device or replaces an existing local file.
DestructiveStep ==
    \/ Logged("rm", "ok")
    \/ Logged("pull", "ok") /\ trace'[Len(trace')].existed

\* C6 as stated: while the cancellation flag is set, no step of the running
\* transfer deletes a remote file or replaces an existing local file.
C6_NothingDestructiveWhileSet ==
    [][ (stop_event /\ stop_event') => ~DestructiveStep ]_vars

\* C6 as amended: a transfer that finds the flag set at the top of an
\* iteration leaves the loop, and from then on deletes no remote file and
\* writes no local file.
C6_NothingDestructiveOnceObserved ==
    [][ /\ (pc = "t_loop" /\ stop_event /\ pc' # pc) => pc' = "t_end"
        /\ pc \in {"t_end", "done"} =>
               (remote' = remote /\ fs' = fs /\ trace' = trace) ]_vars

\* A move was cancelled after it had deleted a file from the device.
C6_Witness ==
    /\ cancelAt = 2
    /\ pc = "done"
    /\ HasEvent("rm", "ok")
    /\ remote # Paths

(* ---------------------- claims: destination and order ------------------ *)

\* The file in progress has its destination computed.
InFile == pc \in {"t_confirm", "t_pull", "t_rm"}

\* The four values the destination is derived from.
PathKey(p, t) ==
    <<get_file_category(p), extension_folder_of(p), get_date_folder_name(t), basename(p)>>

\* C11: the destination of the file in progress is
\* destFolder/My Album/<category>/<extensionFolder>/<dateFolder>/<basename>,
\* the extension folder being the extension without its dot or no_extension,
\* the date folder the year and month of the modification time or
\* Unknown_Date; a file equal to it on category, extension folder, date folder
\* and basename has the same destination.
C11_DestinationFromFourValues ==
    /\ InFile =>
          /\ \E t \in MTimes :
                target_dir = <<DestFolder, "My Album", get_file_category(remote_file),
                               extension_folder_of(remote_file), get_date_folder_name(t)>>
          /\ final_local_path = <<target_dir, basename(remote_file)>>
          /\ target_dir[4] = (IF remote_file.ext = "" THEN "no_extension" ELSE "jpg")
          /\ target_dir[5] \in {<<"Unknown_Date">>, <<2024, "March">>}
          /\ \A q \in Paths : \A u \in MTimes :
                PathKey(q, u) = <<target_dir[3], target_dir[4], target_dir[5],
                                 basename(remote_file)>>
                    => final_local_path_of(q, u) = final_local_path

\* The second file of the transfer, from another remote directory and equal
\* to the first on the four values, meets the copy of the first at its own
\* destination.
C11_Witness ==
    /\ pc = "t_confirm"
    /\ i = 2
    /\ file_list[1].dir = "DCIM"
    /\ remote_file.dir = "Download"
    /\ basename(file_list[1]) = basename(remote_file)
    /\ target_dir[5] = <<2024, "March">>
    /\ fs[final_local_path] = content[file_list[1]]

\* Position of a file in the file list (the list has no repeats).
IndexOf(f) == CHOOSE k \in DOMAIN file_list : file_list[k] = f

TransferStarted == pc \in {"t_loop", "t_confirm", "t_pull", "t_rm", "t_end", "done", "t_raised"}

\* C12: the per-file events of a transfer are those of the file in progress:
\* they are logged in file order and none of file i+1 before the progress
\* event of file i, which is emitted by the step that moves on to file i+1;
\* operation_complete is emitted once the list is drained or the flag was seen
\* at the top of an iteration, after the last per-file event, and nothing is
\* emitted after it.
C12_EventsBeforeNextFile ==
    /\ [](TransferStarted =>
             /\ \A k \in DOMAIN trace :
                   IndexOf(trace[k].file) <= (IF pc = "t_loop" THEN i - 1 ELSE i)
             /\ \A k, l \in DOMAIN trace :
                   k < l => IndexOf(trace[k].file) <= IndexOf(trace[l].file))
    /\ [][ /\ (trace' # trace /\ TransferStarted) =>
               /\ InFile
               /\ Len(trace') = Len(trace) + 1
               /\ trace'[Len(trace')].file = file_list[i]
           /\ (i' # i /\ TransferStarted) =>
               /\ InFile
               /\ i' = i + 1
               /\ progress' = <<i, Len(file_list)>>
               /\ pc' = "t_loop"
           /\ operation_complete' # operation_complete =>
               /\ pc = "t_end"
               /\ i > Len(file_list) \/ cancelAt = i
               /\ trace' = trace
               /\ pc' = "done"
           /\ pc = "done" =>
               /\ trace' = trace
               /\ progress' = progress
               /\ operation_complete' = operation_complete ]_vars

\* A transfer of two files logged events of both and emitted its completion.
C12_Witness ==
    /\ pc = "done"
    /\ Len(file_list) = 2
    /\ Len(trace) >= 3
    /\ trace[1].file = file_list[1]
    /\ trace[Len(trace)].file = file_list[2]
    /\ Len(operation_complete) = 1
    /\ progress = <<0, 0>>

\* Number of events of a kind logged for a file.
Count(kind, f) == Cardinality({ k \in DOMAIN trace : trace[k].kind = kind /\ trace[k].file = f })

Declined(f) ==
    \E k \in DOMAIN trace :
        trace[k].kind = "confirm" /\ trace[k].file = f /\ trace[k].res \in {"skip", "error"}

\* C13: a step that ends the work on a file, whatever its outcome, goes back
\* to the top of the loop for the next file; at the top of the loop the two
\* counts add up to the number of files processed; a transfer that completes
\* without having seen the flag processed every file exactly once (one pull,
\* or one declined confirmation) and its counts add up to the list length; a
\* transfer that saw the flag at file k counted the k-1 files before it and
\* logged nothing for file k or a later file.
C13_FailuresDoNotEndLoop ==
    /\ [][ (InFile /\ pc' \notin {"t_confirm", "t_pull", "t_rm"}) =>
               (pc' = "t_loop" /\ i' = i + 1) ]_vars
    /\ [](pc = "t_loop" => success_count + failed_count = i - 1)
    /\ []((pc = "done" /\ cancelAt = 0) =>
             /\ i = Len(file_list) + 1
             /\ success_count + failed_count = Len(file_list)
             /\ \A j \in DOMAIN file_list :
                   /\ Count("pull", file_list[j]) <= 1
                   /\ Count("confirm", file_list[j]) <= 1
                   /\ Count("pull", file_list[j]) = 1 \/ Declined(file_list[j])
                   /\ ~(Count("pull", file_list[j]) = 1 /\ Declined(file_list[j])))
    /\ []((pc = "done" /\ cancelAt # 0) =>
             /\ success_count + failed_count = cancelAt - 1
             /\ \A k \in DOMAIN trace : IndexOf(trace[k].file) < cancelAt)

\* A transfer of two files went on after the pull of its first file failed
\* and completed with one file failed and one transferred.
C13_Witness ==
    /\ pc = "done"
    /\ cancelAt = 0
    /\ Len(file_list) = 2
    /\ trace # << >>
    /\ trace[1].kind = "pull" /\ trace[1].res = "fail"
    /\ success_count = 1
    /\ failed_count = 1

\* C14: a started run of transfer_or_move_files goes on until it has emitted
\* operation_complete (it never stops before); it emits operation_complete
\* once, with the counts it accrued, and then sets progress to (0, 0); no
\* per-file action follows.
C14_AlwaysCompletesOnce ==
    /\ [](/\ pc \notin {"idle", "done"} => ENABLED TransferStep
          /\ Len(operation_complete) <= 1
          /\ pc = "done" =>
                /\ Len(operation_complete) = 1
                /\ operation_complete[1].success = success_count
                /\ operation_complete[1].failed = failed_count
                /\ progress = <<0, 0>>)
    /\ [][ pc = "done" =>
               UNCHANGED <<fs, remote, trace, success_count, failed_count, progress,
                           operation_complete>> ]_vars

\* A copy started without dest_folder has ended at its first file, having
\* emitted no operation_complete and left progress at (0, total).
C14_Witness ==
    /\ pc = "t_raised"
    /\ dest_folder = None
    /\ operation_complete = << >>
    /\ progress = <<0, Len(file_list)>>
    /\ ~ENABLED TransferStep

\* C15: the operation field of every operation_complete event is one of copy,
\* move, cloud_backup, cloud_restore and is the operation the request named.
C15_OperationNamesRequest ==
    \A k \in DOMAIN operation_complete :
        /\ operation_complete[k].operation \in {"copy", "move", "cloud_backup", "cloud_restore"}
        /\ operation_complete[k].operation = (IF is_move_op THEN "move" ELSE "copy")

\* A copy completed with the operation field copying.
C15_Witness ==
    /\ pc = "done"
    /\ ~is_move_op
    /\ Len(operation_complete) = 1
    /\ operation_complete[1].operation = "copying"

\* C16: the step in which the confirmation of a file that exists at the
\* destination fails (an exception of the call) pulls nothing, deletes
\* nothing, leaves the local files as they were, adds one to failed_count,
\* reports the file's progress and goes to the top of the loop for the next
\* file; the file has no pull and no remote delete in the whole transfer.
C16_ChannelErrorCountsFailed ==
    /\ [][ (pc = "t_confirm" /\ Logged("confirm", "error")) =>
               /\ exists(fs, final_local_path)
               /\ fs' = fs
               /\ remote' = remote
               /\ failed_count' = failed_count + 1
               /\ success_count' = success_count
               /\ progress' = <<i, Len(file_list)>>
               /\ i' = i + 1
               /\ pc' = "t_loop" ]_vars
    /\ [](\A k \in DOMAIN trace :
              (trace[k].kind = "confirm" /\ trace[k].res = "error") =>
                  /\ \A l \in DOMAIN trace : trace[l].file = trace[k].file => l = k
                  /\ trace[k].file \in remote)

\* A move whose first confirmation failed left that file alone, moved its
\* second file and ended.
C16_Witness ==
    /\ pc = "done"
    /\ is_move_op
    /\ Len(trace) = 3
    /\ trace[1].kind = "confirm" /\ trace[1].res = "error"
    /\ trace[3].kind = "rm" /\ trace[3].res = "ok"
    /\ failed_count = 1
    /\ success_count = 1
    /\ \E lp \in DOMAIN fs : fs[lp] = OldContent

\* C17: a pull over a file that exists at the destination comes right after
\* a confirmation of the same file whose reply is overwrite.
C17_ReplacedOnlyOnOverwrite ==
    \A k \in DOMAIN trace :
        (trace[k].kind = "pull" /\ trace[k].existed) =>
            /\ k > 1
            /\ trace[k - 1].kind = "confirm"
            /\ trace[k - 1].file = trace[k].file
            /\ trace[k - 1].res = "overwrite"

\* A reply that is neither skip nor overwrite was followed by the pull that
\* replaced the existing file.
C17_Witness ==
    /\ Len(trace) >= 2
    /\ trace[Len(trace) - 1].kind = "confirm"
    /\ trace[Len(trace) - 1].res = "other"
    /\ trace[Len(trace)].kind = "pull"
    /\ trace[Len(trace)].res = "ok"
    /\ trace[Len(trace)].existed
    /\ fs[final_local_path] = content[trace[Len(trace)].file]

\* The transfer is running.
Running == pc \in {"t_begin", "t_loop", "t_confirm", "t_pull", "t_rm"}

\* The background task has ended.
Ended == pc \in {"done", "t_raised"}

\* C18: when the flag is set during a running transfer whose file in
\* progress is file k, no file after k is taken up from then on (no file from
\* k on when the transfer is between two files), whatever start_operation and
\* cancel_operation requests follow, and the transfer ends.
C18_CancelStopsOperation ==
    /\ \A k \in 0..(MaxFiles + 1) :
          /\ []((stop_event /\ InFile /\ i = k) => [](InFile => i <= k))
          /\ []((stop_event /\ pc \in {"t_begin", "t_loop"} /\ i = k) => [](~InFile))
    /\ (stop_event /\ Running) ~> Ended

(* ------------------------ claims: staging and grouping ----------------- *)

\* The files in the staging directory.
Staged == { lp \in DOMAIN fs : lp[1] = HASH_FALLBACK_DIR }

FirstSeen(m) == { k \in DOMAIN m : \A j \in 1..(k - 1) : m[j][2] # m[k][2] }

\* C20: uniques lists, for the hashes that are not empty and in the order in
\* which each is first seen in the hash map, the first path inserted with that
\* hash, whether or not more paths share it; the duplicate groups are listed
\* in the order in which their hashes are first seen.
C20_UniquesFirstSeenOrder ==
    pc = "gb_ret" =>
        LET m == hmap[1]
            g == scan_complete[1]
            idx == [k \in 1..Len(m) |-> k]
            IsUniq(k) == k \in FirstSeen(m) /\ m[k][2] # None /\ m[k][2] # EmptyString
            IsDup(k) == k \in FirstSeen(m) /\ \E j \in DOMAIN m : j > k /\ m[j][2] = m[k][2]
            u == SelectSeq(idx, IsUniq)
            d == SelectSeq(idx, IsDup)
        IN  /\ g.uniques = [n \in 1..Len(u) |-> m[u[n]][1]]
            /\ Len(g.duplicates) = Len(d)
            /\ \A n \in 1..Len(d) :
                  /\ g.duplicates[n].hash = m[d[n]][2]
                  /\ g.duplicates[n].files[1] = m[d[n]][1]

\* A map of three paths, inserted out of path order: the first and the third
\* share a hash, the second has the empty hash; uniques is the first path
\* alone and there is one group.
C20_Witness ==
    /\ pc = "gb_ret"
    /\ Len(hmap[1]) = 3
    /\ PathRank(hmap[1][1][1]) > PathRank(hmap[1][2][1])
    /\ hmap[1][1][2] = md5("c1")
    /\ hmap[1][2][2] = EmptyString
    /\ hmap[1][3][2] = md5("c1")
    /\ scan_complete[1].uniques = <<hmap[1][1][1]>>
    /\ Len(scan_complete[1].duplicates) = 1

(* ------------------------- claims: scan completion --------------------- *)

\* C21: a scan emits scan_complete at most once; the step that emits it has
\* a hash map returned by compute_hashes_on_phone_impl and finds the flag
\* clear, and the event carries the input file list with the uniques and the
\* duplicate groups of that map; a scan that saw the flag in its loop ends
\* with no scan_complete and with progress (0, 0).
C21_ScanCompleteOnce ==
    /\ [](Len(scan_complete) <= 1)
    /\ [][ (pc = "fd_ret" /\ scan_complete' # scan_complete) =>
               /\ hmap # None
               /\ ~stop_event
               /\ scan_complete = << >>
               /\ Len(scan_complete') = 1
               /\ scan_complete'[1].all_files = file_list
               /\ scan_complete'[1].uniques = group_by_hash(hmap[1]).uniques
               /\ scan_complete'[1].duplicates = group_by_hash(hmap[1]).duplicates
               /\ progress' = <<0, 0>> ]_vars
    /\ []((pc = "done" /\ cancelAt # 0) =>
             /\ hmap = None
             /\ scan_complete = << >>
             /\ progress = <<0, 0>>)

\* The first scan emitted one scan_complete; the rescan saw the flag after it
\* had recorded a hash and ended without one.
C21_Witness ==
    /\ pc = "done"
    /\ Len(prev) = 1
    /\ cancelAt # 0
    /\ mapping # << >>
    /\ scan_complete = << >>
    /\ progress = <<0, 0>>

(* -------------------------- claims: cloud tasks ------------------------ *)

\* The items the cloud task took up: the files it pulled, the blobs it
\* downloaded.
Attempted ==
    Cardinality({ k \in DOMAIN trace : trace[k].kind \in {"pull", "download"} })

CloudStarted == op_type \in {"cloud_backup", "cloud_restore"}

\* C22: every started cloud_backup and cloud_restore, in every run (drained,
\* cancelled at the poll before an item, user not found), has emitted one
\* operation_complete when it ends, whose success + failed is the number of
\* items attempted, and has reset progress to (0, 0).
C22_CloudCompletesOnce ==
    (CloudStarted /\ pc = "done") =>
        /\ Len(operation_complete) = 1
        /\ operation_complete[1].success + operation_complete[1].failed = Attempted
        /\ operation_complete[1].operation = op_type
        /\ progress = <<0, 0>>

\* A cloud backup whose user is not found has ended with no
\* operation_complete.
C22_Witness ==
    /\ op_type = "cloud_backup"
    /\ pc = "done"
    /\ user_info = None
    /\ operation_complete = << >>

\* The staged copies: the files of the staging directory.
StagedCopies == { lp \in DOMAIN fs : lp[1] = HASH_FALLBACK_DIR }

\* C23: in cloud_upload_task the staging directory holds a file only during
\* the upload attempt of the file in progress, and then it is that file's
\* copy alone; after the attempt, successful or failed, and when the next
\* file is pulled, the directory is empty.
C23_StagedOnlyDuringAttempt ==
    op_type = "cloud_backup" =>
        IF pc = "u_upload"
        THEN StagedCopies = {local_path_of(remote_file, HASH_FALLBACK_DIR)}
        ELSE StagedCopies = {}

\* One upload succeeded, one failed, and the staging directory is empty.
C23_Witness ==
    /\ op_type = "cloud_backup"
    /\ HasEvent("upload", "ok")
    /\ HasEvent("upload", "azure_error")
    /\ pc = "u_loop"
    /\ StagedCopies = {}

\* The files of this backup whose upload succeeded.
Uploaded ==
    { trace[k].file : k \in { j \in DOMAIN trace : trace[j].kind = "upload" /\ trace[j].res = "ok" } }

\* C24: in one cloud backup two distinct files are uploaded under distinct
\* object keys, and the object uploaded for a file is not overwritten by the
\* upload of another file of the same operation.
C24_DistinctObjectKeys ==
    op_type = "cloud_backup" =>
        \A f \in Uploaded :
            /\ \A g \in Uploaded \ {f} : blob_path_of(f) # blob_path_of(g)
            /\ blob_path_of(f) \in DOMAIN container
            /\ container[blob_path_of(f)] = Object(Some(f), content[f])

\* Two files of the same basename were uploaded and the container holds the
\* object of the later one only.
C24_Witness ==
    /\ op_type = "cloud_backup"
    /\ Cardinality(Uploaded) = 2
    /\ \E f \in Uploaded :
          /\ container[blob_path_of(f)].source # Some(f)
          /\ container[blob_path_of(f)].content # content[f]

(* ----------------------------- claims: adb_pull ------------------------ *)

\* C25: a pull that succeeds leaves the content of the remote file at the
\* final local name and no temporary file, and touches no other file; a pull
\* that fails leaves the directory as it was: no temporary file, and a file
\* that existed under the final name still there with its content.
C25_PullReplacesOrLeaves ==
    [][ LET local_path == local_path_of(remote_file, target_dir)
            temp_path  == temp_path_of(remote_file, target_dir)
        IN  /\ Logged("pull", "ok") =>
                  /\ DOMAIN fs' = DOMAIN fs \cup {local_path}
                  /\ fs'[local_path] = content[remote_file]
                  /\ temp_path \notin DOMAIN fs'
                  /\ \A lp \in DOMAIN fs \ {local_path} : fs'[lp] = fs[lp]
            /\ Logged("pull", "fail") =>
                  /\ temp_path \notin DOMAIN fs'
                  /\ local_path \in DOMAIN fs => local_path \in DOMAIN fs'
                  /\ fs' = fs ]_vars

\* The pull over an existing file failed and the file is there with the
\* content it had.
C25_Witness ==
    /\ trace # << >>
    /\ trace[Len(trace)].kind = "pull"
    /\ trace[Len(trace)].res = "fail"
    /\ trace[Len(trace)].existed
    /\ final_local_path \in DOMAIN fs
    /\ fs[final_local_path] = OldContent

(* ------------------------------ claims: adb_ls ------------------------- *)

\* C26: adb_ls never raises to its caller: when the command failed it
\* returns the empty list, and else every line is skipped or yields one
\* entry, a line of fewer than 6 tokens being skipped.
C26_NeverRaises ==
    pc = "ls_ret" =>
        /\ results[1] = "return"
        /\ ~success => results[2] = << >>
        /\ Len(results[2]) <= Cardinality({ k \in DOMAIN stdout : Len(stdout[k]) >= 6 })

\* The command succeeded, a line of its output has exactly 6 tokens, and the
\* call raised IndexError.
C26_Witness ==
    /\ pc = "ls_ret"
    /\ success
    /\ \E k \in DOMAIN stdout : Len(stdout[k]) = 6
    /\ results = <<"raise", "IndexError">>
====
